---------------------------- MODULE Spec2Model ----------------------------
(***************************************************************************)
(* Wisata Grobogan (src/index.tsx): the record store of App, the           *)
(* aggregates of Dashboard, the marker synchronisation of MapComponent and *)
(* the submission handler of InputForm, as one state machine.              *)
(*                                                                         *)
(* Numbers.  A JavaScript number is a record [k, v]: k = "num" with v the  *)
(* value, k = "nan", or k = "inf" with v the sign.  Coordinates are scaled *)
(* by 10^4 (-7.0867 is -70867), so coordinate texts carry at most four     *)
(* fraction digits and no exponent.  Free text that the code parses        *)
(* (latitude, longitude, the capacity input) is a sequence of characters.  *)
(***************************************************************************)
EXTENDS Integers, Sequences, FiniteSets, TLC

(***************************************************************************)
(* Bounds of the model.                                                    *)
(***************************************************************************)
MaxSpots == 2
MaxClock == 3

(***************************************************************************)
(* Types & constants (src/index.tsx 26-73).                                *)
(***************************************************************************)
DISTRICTS ==
  << "Brati", "Gabus", "Geyer", "Godong", "Grobogan",
     "Gubug", "Karangrayung", "Kedungjati", "Klambu", "Kradenan",
     "Ngaringan", "Penawangan", "Pulokulon", "Purwodadi",
     "Tanggungharjo", "Tawangharjo", "Tegowanu", "Toroh", "Wirosari" >>

Num(v) == [k |-> "num", v |-> v]
NaN == [k |-> "nan", v |-> 0]
Infinity(sign) == [k |-> "inf", v |-> sign]

LatLng(lat, lng) == [lat |-> lat, lng |-> lng]

DISTRICT_COORDINATES ==
  [d \in {DISTRICTS[i] : i \in 1..Len(DISTRICTS)} |->
     CASE d = "Brati"         -> LatLng(Num(-70289), Num(1108654))
       [] d = "Gabus"         -> LatLng(Num(-71643), Num(1110505))
       [] d = "Geyer"         -> LatLng(Num(-72188), Num(1109009))
       [] d = "Godong"        -> LatLng(Num(-70326), Num(1107107))
       [] d = "Grobogan"      -> LatLng(Num(-69959), Num(1109329))
       [] d = "Gubug"         -> LatLng(Num(-70604), Num(1106409))
       [] d = "Karangrayung"  -> LatLng(Num(-71158), Num(1107483))
       [] d = "Kedungjati"    -> LatLng(Num(-71654), Num(1106132))
       [] d = "Klambu"        -> LatLng(Num(-70097), Num(1108351))
       [] d = "Kradenan"      -> LatLng(Num(-71581), Num(1111378))
       [] d = "Ngaringan"     -> LatLng(Num(-70543), Num(1111098))
       [] d = "Penawangan"    -> LatLng(Num(-70818), Num(1108251))
       [] d = "Pulokulon"     -> LatLng(Num(-71264), Num(1110028))
       [] d = "Purwodadi"     -> LatLng(Num(-70867), Num(1109157))
       [] d = "Tanggungharjo" -> LatLng(Num(-70945), Num(1105835))
       [] d = "Tawangharjo"   -> LatLng(Num(-70583), Num(1109856))
       [] d = "Tegowanu"      -> LatLng(Num(-70645), Num(1105401))
       [] d = "Toroh"         -> LatLng(Num(-71353), Num(1108927))
       [] d = "Wirosari"      -> LatLng(Num(-70955), Num(1110660))]

TOURISM_TYPES == << "Wisata Alam", "Wisata Air", "Wisata Religi" >>

Semua == "Semua"

\* setView([-7.0867, 110.9157], 10)
DefaultView == [center |-> LatLng(Num(-70867), Num(1109157)), zoom |-> 10]

(***************************************************************************)
(* JavaScript values and conversions.                                      *)
(***************************************************************************)
\* An optional string (latitude?: string): undefined, or the characters.
Undefined == [def |-> FALSE, s |-> << >>]
Str(chars) == [def |-> TRUE, s |-> chars]

\* Truthiness of a number: 0, -0 and NaN are falsy.
Truthy(n) == ~(n.k = "nan") /\ ~(n.k = "num" /\ n.v = 0)

\* x || dflt for an optional string: undefined and "" are falsy.
OrString(x, dflt) == IF x.def /\ x.s # << >> THEN x.s ELSE dflt

IsDigit(c) == c \in {"0", "1", "2", "3", "4", "5", "6", "7", "8", "9"}

DigitVal(c) ==
  CASE c = "0" -> 0 [] c = "1" -> 1 [] c = "2" -> 2 [] c = "3" -> 3
    [] c = "4" -> 4 [] c = "5" -> 5 [] c = "6" -> 6 [] c = "7" -> 7
    [] c = "8" -> 8 [] c = "9" -> 9

RECURSIVE SkipWhiteSpace(_)
SkipWhiteSpace(s) ==
  IF s # << >> /\ s[1] = " " THEN SkipWhiteSpace(Tail(s)) ELSE s

\* The longest prefix of s made of decimal digits.
RECURSIVE LeadingDigits(_)
LeadingDigits(s) ==
  IF s # << >> /\ IsDigit(s[1]) THEN <<s[1]>> \o LeadingDigits(Tail(s)) ELSE << >>

RECURSIVE DigitsValue(_)
DigitsValue(ds) ==
  IF ds = << >> THEN 0
  ELSE DigitsValue(SubSeq(ds, 1, Len(ds) - 1)) * 10 + DigitVal(ds[Len(ds)])

StartsWith(s, p) == Len(s) >= Len(p) /\ SubSeq(s, 1, Len(p)) = p

InfinityText == << "I", "n", "f", "i", "n", "i", "t", "y" >>

\* The sign a numeral starts with, and the numeral without it.
SignOf(t) == IF t # << >> /\ t[1] = "-" THEN -1 ELSE 1
StripSign(t) == IF t # << >> /\ t[1] \in {"+", "-"} THEN Tail(t) ELSE t

\* What follows the leading digits of u.
AfterDigits(u) == SubSeq(u, Len(LeadingDigits(u)) + 1, Len(u))

\* The digits of the fraction when r starts with a decimal point.
FractionDigits(r) == IF r # << >> /\ r[1] = "." THEN LeadingDigits(Tail(r)) ELSE << >>

\* The number with integer digits ip and fraction digits fp, scaled by 10^4;
\* NaN when there is no digit at all.
Decimal(sign, ip, fp) ==
  IF ip = << >> /\ fp = << >> THEN NaN
  ELSE Num(sign * (DigitsValue(ip) * 10000
                   + DigitsValue(SubSeq(fp \o << "0", "0", "0", "0" >>, 1, 4))))

ParseUnsigned(sign, u) ==
  IF StartsWith(u, InfinityText) THEN Infinity(sign)
  ELSE Decimal(sign, LeadingDigits(u), FractionDigits(AfterDigits(u)))

ParseSigned(t) == ParseUnsigned(SignOf(t), StripSign(t))

\* parseFloat: leading white space, a sign, then "Infinity" or the longest
\* decimal literal; NaN when no digit is found.
ParseFloat(s) == ParseSigned(SkipWhiteSpace(s))

IntegerOf(sign, ip) == IF ip = << >> THEN NaN ELSE Num(sign * DigitsValue(ip))

IntegerSigned(t) == IntegerOf(SignOf(t), LeadingDigits(StripSign(t)))

\* parseInt (radix 10): leading white space, a sign, the longest run of digits.
ParseInt(s) == IntegerSigned(SkipWhiteSpace(s))

\* Number(n) || 0 for the number n that parseInt gave (an integer or NaN).
NumberOrZero(n) == IF Truthy(n) THEN n.v ELSE 0

\* Date.now().toString()
DateNowToString(now) == ToString(now)

(***************************************************************************)
(* TouristSpot (src/index.tsx 29-39) and its JSON text.                    *)
(***************************************************************************)
TouristSpot(id, name, village, district, type, capacity, risks, latitude, longitude) ==
  [id |-> id, name |-> name, village |-> village, district |-> district,
   type |-> type, capacity |-> capacity, risks |-> risks,
   latitude |-> latitude, longitude |-> longitude]

\* A JSON object is the sequence of its <<key, value>> members in insertion
\* order; a member whose value is undefined is left out by JSON.stringify.
OptionalMember(key, x) == IF x.def THEN << <<key, [chars |-> x.s]>> >> ELSE << >>

StringifySpot(s) ==
  << <<"id", [string |-> s.id]>>,
     <<"name", [string |-> s.name]>>,
     <<"village", [string |-> s.village]>>,
     <<"district", [string |-> s.district]>>,
     <<"type", [string |-> s.type]>>,
     <<"capacity", [number |-> s.capacity]>>,
     <<"risks", [array |-> s.risks]>> >>
  \o OptionalMember("latitude", s.latitude)
  \o OptionalMember("longitude", s.longitude)

\* JSON.stringify(spots): the text of an array of objects.
JSONStringify(spots) ==
  [kind |-> "array", items |-> [i \in 1..Len(spots) |-> StringifySpot(spots[i])]]

HasMember(obj, key) == \E i \in 1..Len(obj) : obj[i][1] = key
Member(obj, key) == obj[CHOOSE i \in 1..Len(obj) : obj[i][1] = key][2]

ParseOptional(obj, key) ==
  IF HasMember(obj, key) THEN Str(Member(obj, key).chars) ELSE Undefined

ParseSpot(obj) ==
  TouristSpot(Member(obj, "id").string, Member(obj, "name").string,
              Member(obj, "village").string, Member(obj, "district").string,
              Member(obj, "type").string, Member(obj, "capacity").number,
              Member(obj, "risks").array,
              ParseOptional(obj, "latitude"), ParseOptional(obj, "longitude"))

\* JSON.parse(text): throws on malformed text (ok = FALSE); a well-formed text
\* is an array of objects or some other JSON value (isArray = FALSE).
JSONParse(text) ==
  [ok      |-> text.kind # "malformed",
   isArray |-> text.kind = "array",
   value   |-> IF text.kind = "array"
               THEN [i \in 1..Len(text.items) |-> ParseSpot(text.items[i])]
               ELSE << >>]

(***************************************************************************)
(* Dashboard aggregates (src/index.tsx 405-425).                           *)
(***************************************************************************)
FilteredSpots(spots, selectedDistrict) ==
  IF selectedDistrict = Semua THEN spots
  ELSE SelectSeq(spots, LAMBDA s : s.district = selectedDistrict)

RECURSIVE SumCapacity(_)
SumCapacity(list) ==
  IF list = << >> THEN 0
  ELSE SumCapacity(SubSeq(list, 1, Len(list) - 1)) + list[Len(list)].capacity

TotalCapacity(filteredSpots) == SumCapacity(filteredSpots)

ByType(filteredSpots) ==
  [i \in 1..Len(TOURISM_TYPES) |->
     [type  |-> TOURISM_TYPES[i],
      count |-> Len(SelectSeq(filteredSpots, LAMBDA s : s.type = TOURISM_TYPES[i]))]]

DisplayDistricts(selectedDistrict) ==
  IF selectedDistrict = Semua THEN DISTRICTS ELSE << selectedDistrict >>

ByDistrict(filteredSpots, selectedDistrict) ==
  LET displayDistricts == DisplayDistricts(selectedDistrict)
  IN  [i \in 1..Len(displayDistricts) |->
         [name  |-> displayDistricts[i],
          count |-> Len(SelectSeq(filteredSpots,
                                  LAMBDA s : s.district = displayDistricts[i]))]]

\* A faulty variant of Dashboard: the capacity total is taken over the full list.
DashboardCapacityOfAll(spots, selectedDistrict) ==
  [filteredSpots |-> FilteredSpots(spots, selectedDistrict),
   totalCount    |-> Len(FilteredSpots(spots, selectedDistrict)),
   totalCapacity |-> TotalCapacity(spots),
   byType        |-> ByType(FilteredSpots(spots, selectedDistrict)),
   byDistrict    |-> ByDistrict(FilteredSpots(spots, selectedDistrict), selectedDistrict),
   mapSpots      |-> FilteredSpots(spots, selectedDistrict)]

\* Everything one render of Dashboard shows.
Dashboard(spots, selectedDistrict) ==
  LET filteredSpots == FilteredSpots(spots, selectedDistrict)
  IN  [filteredSpots |-> filteredSpots,
       totalCount    |-> Len(filteredSpots),
       totalCapacity |-> TotalCapacity(filteredSpots),
       byType        |-> ByType(filteredSpots),
       byDistrict    |-> ByDistrict(filteredSpots, selectedDistrict),
       mapSpots      |-> filteredSpots]

(***************************************************************************)
(* MapComponent (src/index.tsx 77-150).  The component holds two refs,     *)
(* mapInstanceRef ("null" or "map") and markersRef; surface is what the    *)
(* Leaflet map of the container shows: the tile layer, the marker layers   *)
(* and the view.  The three travel together as a record m.                 *)
(***************************************************************************)
NoSurface == [tileLayer |-> FALSE, markers |-> << >>, view |-> [none |-> TRUE]]

\* A component instance as useRef leaves it (lines 78-80).
NewMapComponent(surface) ==
  [mapInstanceRef |-> "null", markersRef |-> << >>, surface |-> surface]

\* Lines 113-117 for the parsed lat and lng of a spot in district.
Resolve(lat, lng, district) ==
  IF (~Truthy(lat) \/ ~Truthy(lng)) /\ district \in DOMAIN DISTRICT_COORDINATES
  THEN [placed |-> Truthy(DISTRICT_COORDINATES[district].lat)
                   /\ Truthy(DISTRICT_COORDINATES[district].lng),
        latlng |-> DISTRICT_COORDINATES[district]]
  ELSE [placed |-> Truthy(lat) /\ Truthy(lng), latlng |-> LatLng(lat, lng)]

\* Lines 109-117: where the marker of a spot goes, if anywhere.
ResolveLocation(spot) ==
  Resolve(ParseFloat(OrString(spot.latitude, << "0" >>)),
          ParseFloat(OrString(spot.longitude, << "0" >>)), spot.district)

\* L.marker([lat, lng]).bindPopup(name, district, type) (lines 124-132).
Marker(spot, location) ==
  [latlng |-> location.latlng,
   popup  |-> [name |-> spot.name, district |-> spot.district, type |-> spot.type]]

\* The body of spots.forEach for one spot (lines 109-135).
PlaceMarker(spot, location) ==
  IF location.placed THEN << Marker(spot, location) >> ELSE << >>

\* spots.forEach(...) pushing one marker per placed spot (lines 108-136).
RECURSIVE PlaceMarkers(_)
PlaceMarkers(spots) ==
  IF spots = << >> THEN << >>
  ELSE PlaceMarker(spots[1], ResolveLocation(spots[1])) \o PlaceMarkers(Tail(spots))

\* layers without its element at index i.
DropAt(layers, i) == SubSeq(layers, 1, i - 1) \o SubSeq(layers, i + 1, Len(layers))

\* marker.remove(): the layer leaves the map it is on (one occurrence).
RemoveLayer(layers, marker) ==
  IF \E i \in 1..Len(layers) : layers[i] = marker
  THEN DropAt(layers, CHOOSE j \in 1..Len(layers) :
                        layers[j] = marker /\ \A h \in 1..(j - 1) : layers[h] # marker)
  ELSE layers

\* A faulty variant of ClearMarkers: the old markers are left on the map.
KeepMarkers(layers, markers) == layers

\* markersRef.current.forEach(marker => marker.remove()) (line 105).
RECURSIVE ClearMarkers(_, _)
ClearMarkers(layers, markers) ==
  IF markers = << >> THEN layers
  ELSE ClearMarkers(RemoveLayer(layers, markers[1]), Tail(markers))

\* Order of JavaScript numbers that are not NaN.
LessEq(a, b) ==
  IF a.k = "inf" THEN a.v = -1 \/ (b.k = "inf" /\ b.v = 1)
  ELSE IF b.k = "inf" THEN b.v = 1
  ELSE a.v <= b.v

MathMin(a, b) == IF LessEq(a, b) THEN a ELSE b
MathMax(a, b) == IF LessEq(a, b) THEN b ELSE a

\* LatLngBounds.extend: the box b widened to hold the point p.
Extend(b, p) ==
  [south |-> MathMin(p.lat, b.south), west |-> MathMin(p.lng, b.west),
   north |-> MathMax(p.lat, b.north), east |-> MathMax(p.lng, b.east)]

PointBounds(p) == [south |-> p.lat, west |-> p.lng, north |-> p.lat, east |-> p.lng]

\* featureGroup(markers).getBounds(): the bounding box of the markers.
RECURSIVE GetBounds(_)
GetBounds(markers) ==
  IF Len(markers) = 1 THEN PointBounds(markers[1].latlng)
  ELSE Extend(GetBounds(Tail(markers)), markers[1].latlng)

\* fitBounds(bounds, { padding: [50, 50] }) (line 141).
FitBounds(bounds) == [fitBounds |-> bounds, padding |-> << 50, 50 >>]

\* Lines 82-90: the map is created once, centred on Purwodadi, with its tiles.
MapInitEffect(m, windowL) ==
  IF m.mapInstanceRef = "null" /\ windowL
  THEN [m EXCEPT !.mapInstanceRef = "map",
                 !.surface = [tileLayer |-> TRUE, markers |-> << >>,
                              view |-> DefaultView]]
  ELSE m

\* A faulty variant of MapCleanup: the ref is dropped without map.remove().
MapCleanupKeepsLayers(m) ==
  IF m.mapInstanceRef # "null" THEN [m EXCEPT !.mapInstanceRef = "null"] ELSE m

\* Lines 93-98: map.remove() takes every layer off and destroys the map.
MapCleanup(m) ==
  IF m.mapInstanceRef # "null"
  THEN [m EXCEPT !.mapInstanceRef = "null", !.surface = NoSurface]
  ELSE m

\* Lines 138-145: fit the view to the markers, or reset it.
ViewFor(markers) ==
  IF Len(markers) > 0 THEN FitBounds(GetBounds(markers)) ELSE DefaultView

\* Lines 105-145 once the guard has passed: placed are the new markers.
ReplaceMarkers(m, placed) ==
  [m EXCEPT !.markersRef = placed,
            !.surface = [tileLayer |-> m.surface.tileLayer,
                         markers   |-> ClearMarkers(m.surface.markers, m.markersRef)
                                       \o placed,
                         view      |-> ViewFor(placed)]]

\* Lines 101-147: clear the old markers, place the new ones, set the view.
MarkerUpdateEffect(m, windowL, spots) ==
  IF m.mapInstanceRef # "null" /\ windowL
  THEN ReplaceMarkers(m, PlaceMarkers(spots))
  ELSE m

(***************************************************************************)
(* Inputs of the model.                                                    *)
(***************************************************************************)
Names == {"", "Bledug Kuwu"}
Villages == {"", "Kuwu"}
FormDistricts == {"Brati", "Kradenan"}
CapacityTexts == {<< >>, << "5", "0", "0" >>}
FilterChoices == {Semua, "Kradenan", "Geyer"}

\* Lists a previous session may have left in the slot.  The load effect takes
\* any array it finds, so a record the form could not have made (a district
\* outside DISTRICTS) is among them.
KedungOmbo ==
  TouristSpot("1", "Waduk Kedung Ombo", "Rambat", "Geyer", "Wisata Air", 300,
              << "Laka Air" >>, Str(<< "-", "7", ".", "2", "5" >>),
              Str(<< "1", "1", "0", ".", "8", "4" >>))
KiAgengSelo ==
  TouristSpot("0", "Makam Ki Ageng Selo", "Selo", "Tawangharjo", "Wisata Religi",
              200, << >>, Str(<< >>), Str(<< >>))
Outsider ==
  TouristSpot("0", "Lawang Sewu", "Sekayu", "Semarang", "Wisata Religi", 100,
              << >>, Undefined, Undefined)

PreviousLists == { << >>, << KiAgengSelo >>, << KedungOmbo, KiAgengSelo >>, << Outsider >> }

MalformedText == [kind |-> "malformed", items |-> << >>]
ScalarText == [kind |-> "scalar", items |-> << >>]

\* The slot is << >> (no item: getItem gives null) or << text >>.
SetItem(text) == << text >>

InitialStorage ==
  { << >>, << MalformedText >>, << ScalarText >> }
  \cup { << JSONStringify(l) >> : l \in PreviousLists }

(***************************************************************************)
(* State.                                                                  *)
(***************************************************************************)
VARIABLES
  storage,          \* localStorage's item 'grobogan_tourism_data'
  spots,            \* App's spots state as last rendered
  activeTab,        \* App's activeTab state as last rendered
  pending,          \* state updates queued by setSpots / setActiveTab
  selectedDistrict, \* Dashboard's state ("Semua" while no Dashboard is mounted)
  formData,         \* InputForm's state (the initial form while none is mounted)
  now,              \* what Date.now() returns
  windowL,          \* whether window.L (Leaflet) is defined
  mapInstanceRef,   \* MapComponent's ref to the Leaflet map
  markersRef,       \* MapComponent's ref to the markers it placed
  surface,          \* what the Leaflet map of the container shows
  dialog,           \* the alert or confirm the last handler showed
  consoleError,     \* whether console.error was called
  pc                \* "mount", "load", "save": effects of the first render still
                    \* to run; "render": an update is queued; "idle"; "crashed"

vars == << storage, spots, activeTab, pending, selectedDistrict, formData, now,
           windowL, mapInstanceRef, markersRef, surface, dialog, consoleError, pc >>

mapVars == << mapInstanceRef, markersRef, surface >>

InitialForm ==
  [name |-> "", village |-> "", district |-> DISTRICTS[1], type |-> "Wisata Alam",
   capacity |-> Num(0), risks |-> << >>,
   latitude |-> Str(<< >>), longitude |-> Str(<< >>)]

MapState == [mapInstanceRef |-> mapInstanceRef, markersRef |-> markersRef,
             surface |-> surface]

SetMap(m) ==
  /\ mapInstanceRef' = m.mapInstanceRef
  /\ markersRef' = m.markersRef
  /\ surface' = m.surface

\* A freshly mounted MapComponent runs its two effects in order.
MountMapComponent(m, L, list) ==
  MarkerUpdateEffect(MapInitEffect(NewMapComponent(m.surface), L), L, list)

\* The effects of MapComponent when App renders newTab with newSpots after
\* oldTab: Dashboard (and its map) exists only on the dashboard tab, and a
\* render of a mounted Dashboard hands the map a new list.
MapEffects(m, L, oldTab, newTab, newSpots, newSelected) ==
  IF newTab = "dashboard"
  THEN IF oldTab = "dashboard"
       THEN MarkerUpdateEffect(m, L, FilteredSpots(newSpots, newSelected))
       ELSE MountMapComponent(m, L, FilteredSpots(newSpots, Semua))
  ELSE IF oldTab = "dashboard" THEN MapCleanup(m) ELSE m

Init ==
  /\ storage \in InitialStorage
  /\ spots = << >>
  /\ activeTab = "dashboard"
  /\ pending = << >>
  /\ selectedDistrict = Semua
  /\ formData = InitialForm
  /\ now = 2      \* later than the ids a previous session left ("0", "1")
  /\ windowL \in BOOLEAN
  /\ mapInstanceRef = "null"
  /\ markersRef = << >>
  /\ surface = NoSurface
  /\ dialog = "none"
  /\ consoleError = FALSE
  /\ pc = "mount"

(***************************************************************************)
(* The first render: effects run children first, then App's in order.      *)
(***************************************************************************)
\* MapComponent's two effects after the first render (spots is []).
MountEffects ==
  /\ pc = "mount"
  /\ SetMap(MountMapComponent(MapState, windowL, FilteredSpots(spots, selectedDistrict)))
  /\ pc' = "load"
  /\ UNCHANGED << storage, spots, activeTab, pending, selectedDistrict, formData,
                  now, windowL, dialog, consoleError >>

\* A faulty variant of LoadParsed: no try/catch, the parse error escapes the effect.
LoadParsedUncaught(parsed) ==
  IF parsed.ok
  THEN /\ pending' = << [spots |-> parsed.value, isArray |-> parsed.isArray,
                         activeTab |-> activeTab] >>
       /\ consoleError' = consoleError
       /\ pc' = "save"
  ELSE /\ UNCHANGED << pending, consoleError >>
       /\ pc' = "crashed"

\* setSpots(JSON.parse(saved)), or the catch (lines 635-639): either way
\* the effect returns and the save effect is next.
LoadParsed(parsed) ==
  IF parsed.ok
  THEN /\ pending' = << [spots |-> parsed.value, isArray |-> parsed.isArray,
                         activeTab |-> activeTab] >>
       /\ consoleError' = consoleError
       /\ pc' = "save"
  ELSE /\ consoleError' = TRUE
       /\ pending' = pending
       /\ pc' = "save"

\* Lines 632-641.
LoadEffect ==
  /\ pc = "load"
  /\ IF storage # << >>
     THEN LoadParsed(JSONParse(storage[1]))
     ELSE /\ pc' = "save"
          /\ UNCHANGED << pending, consoleError >>
  /\ UNCHANGED << storage, spots, activeTab, selectedDistrict, formData, now,
                  windowL, mapVars, dialog >>

\* Lines 644-646, after the first render: spots is still the initial [].
SaveEffect ==
  /\ pc = "save"
  /\ storage' = SetItem(JSONStringify(spots))
  /\ pc' = IF pending # << >> THEN "render" ELSE "idle"
  /\ UNCHANGED << spots, activeTab, pending, selectedDistrict, formData, now,
                  windowL, mapVars, dialog, consoleError >>

(***************************************************************************)
(* A render of queued updates, with the effects it triggers.               *)
(***************************************************************************)
\* A faulty variant of Saved: the effect writes the list of the previous render.
SavedStale(newSpots, spotsChanged) ==
  IF spotsChanged THEN SetItem(JSONStringify(spots)) ELSE storage

\* The slot after a render of newSpots: the save effect (lines 644-646) runs
\* when the spots array is a new one.
Saved(newSpots, spotsChanged) ==
  IF spotsChanged THEN SetItem(JSONStringify(newSpots)) ELSE storage

\* What a committed render of App leaves: the tab's component is mounted
\* (the other one unmounted, its state gone), the map effects have run, and
\* so has the save effect (lines 644-646) when setSpots gave a new array.
\* Every render of a mounted Dashboard here follows setSpots or
\* setSelectedDistrict, so the map's spots prop is a new array each time.
Commit(newSpots, newTab, newSelected, spotsChanged) ==
  /\ spots' = newSpots
  /\ activeTab' = newTab
  /\ selectedDistrict' = IF newTab = "dashboard" /\ activeTab = "dashboard"
                         THEN newSelected ELSE Semua
  /\ formData' = IF newTab = "input" /\ activeTab = "input" THEN formData
                 ELSE InitialForm
  /\ SetMap(MapEffects(MapState, windowL, activeTab, newTab, newSpots, newSelected))
  /\ storage' = Saved(newSpots, spotsChanged)

Render ==
  /\ pc = "render"
  /\ pending # << >>
  /\ IF pending[1].isArray
     THEN /\ Commit(pending[1].spots, pending[1].activeTab, selectedDistrict, TRUE)
          /\ pc' = "idle"
     ELSE \* spots.reduce is not a function: the render throws, React unmounts
          \* the tree and its cleanups run.
          /\ SetMap(MapCleanup(MapState))
          /\ pc' = "crashed"
          /\ UNCHANGED << storage, spots, activeTab, selectedDistrict, formData >>
  /\ pending' = << >>
  /\ UNCHANGED << now, windowL, dialog, consoleError >>

(***************************************************************************)
(* InputForm (src/index.tsx 190-243, 260-360).                             *)
(***************************************************************************)
AlertIncomplete == "Mohon lengkapi nama dan lokasi desa."
AlertSaved == "Data berhasil disimpan!"
ConfirmYes == "confirm: OK"
ConfirmNo == "confirm: Cancel"

\* x || dflt for a string.
OrText(x, dflt) == IF x # "" THEN x ELSE dflt

\* Lines 209-219.
NewSpot(form, dateNow) ==
  TouristSpot(DateNowToString(dateNow), form.name, form.village,
              OrText(form.district, DISTRICTS[1]), OrText(form.type, "Wisata Alam"),
              NumberOrZero(form.capacity), form.risks, form.latitude, form.longitude)

\* A faulty variant of AddSpot: the new record goes to the back of the list.
AddSpotAtEnd(spot) ==
  pending' = << [spots |-> spots \o << spot >>, isArray |-> TRUE,
                 activeTab |-> "dashboard"] >>

\* App.addSpot (lines 648-651): both updates are queued until the render.
AddSpot(spot) ==
  pending' = << [spots |-> << spot >> \o spots, isArray |-> TRUE,
                 activeTab |-> "dashboard"] >>

\* A faulty variant of HandleSubmit: only the name is required.
HandleSubmitNameOnly ==
  /\ pc = "idle"
  /\ activeTab = "input"
  /\ IF formData.name = ""
     THEN /\ dialog' = AlertIncomplete
          /\ UNCHANGED << pending, pc >>
     ELSE /\ Len(spots) < MaxSpots
          /\ AddSpot(NewSpot(formData, now))
          /\ dialog' = AlertSaved
          /\ pc' = "render"
  /\ UNCHANGED << storage, spots, activeTab, selectedDistrict, formData, now,
                  windowL, mapVars, consoleError >>

\* Lines 202-234.  The closing alert is up while the updates are still
\* queued; the form's own reset is queued too and goes with the form when
\* the render unmounts it.
HandleSubmit ==
  /\ pc = "idle"
  /\ activeTab = "input"
  /\ IF formData.name = "" \/ formData.village = ""
     THEN /\ dialog' = AlertIncomplete
          /\ UNCHANGED << pending, pc >>
     ELSE /\ Len(spots) < MaxSpots
          /\ AddSpot(NewSpot(formData, now))
          /\ dialog' = AlertSaved
          /\ pc' = "render"
  /\ UNCHANGED << storage, spots, activeTab, selectedDistrict, formData, now,
                  windowL, mapVars, consoleError >>

SetName(v) ==
  /\ pc = "idle" /\ activeTab = "input" /\ v # formData.name
  /\ formData' = [formData EXCEPT !.name = v]
  /\ dialog' = "none"
  /\ UNCHANGED << storage, spots, activeTab, pending, selectedDistrict, now,
                  windowL, mapVars, consoleError, pc >>

SetVillage(v) ==
  /\ pc = "idle" /\ activeTab = "input" /\ v # formData.village
  /\ formData' = [formData EXCEPT !.village = v]
  /\ dialog' = "none"
  /\ UNCHANGED << storage, spots, activeTab, pending, selectedDistrict, now,
                  windowL, mapVars, consoleError, pc >>

SetDistrict(v) ==
  /\ pc = "idle" /\ activeTab = "input" /\ v # formData.district
  /\ formData' = [formData EXCEPT !.district = v]
  /\ dialog' = "none"
  /\ UNCHANGED << storage, spots, activeTab, pending, selectedDistrict, now,
                  windowL, mapVars, consoleError, pc >>

\* Line 359: capacity: parseInt(e.target.value).
SetCapacity(text) ==
  /\ pc = "idle" /\ activeTab = "input" /\ ParseInt(text) # formData.capacity
  /\ formData' = [formData EXCEPT !.capacity = ParseInt(text)]
  /\ dialog' = "none"
  /\ UNCHANGED << storage, spots, activeTab, pending, selectedDistrict, now,
                  windowL, mapVars, consoleError, pc >>

(***************************************************************************)
(* Dashboard and App handlers.                                             *)
(***************************************************************************)
\* A faulty variant of WithoutId: the comparison is inverted.
WithoutOtherIds(list, id) == SelectSeq(list, LAMBDA s : s.id = id)

\* spots.filter(s => s.id !== id) (line 655).
WithoutId(list, id) == SelectSeq(list, LAMBDA s : s.id # id)

\* A faulty variant of DeleteSpot: the answer to the confirmation is ignored.
DeleteSpotUnasked(confirmed) ==
  /\ pc = "idle"
  /\ activeTab = "dashboard"
  /\ \E row \in 1..Len(FilteredSpots(spots, selectedDistrict)) :
       /\ Commit(WithoutId(spots, FilteredSpots(spots, selectedDistrict)[row].id),
                 activeTab, selectedDistrict, TRUE)
       /\ dialog' = IF confirmed THEN ConfirmYes ELSE ConfirmNo
  /\ UNCHANGED << pending, now, windowL, consoleError, pc >>

\* App.deleteSpot (lines 653-657) from the delete button of a table row
\* (lines 606-613), with the render that follows a confirmed delete.
DeleteSpot(confirmed) ==
  /\ pc = "idle"
  /\ activeTab = "dashboard"
  /\ \E row \in 1..Len(FilteredSpots(spots, selectedDistrict)) :
       LET id == FilteredSpots(spots, selectedDistrict)[row].id
       IN  IF confirmed
           THEN /\ Commit(WithoutId(spots, id), activeTab, selectedDistrict, TRUE)
                /\ dialog' = ConfirmYes
           ELSE /\ dialog' = ConfirmNo
                /\ UNCHANGED << storage, spots, activeTab, selectedDistrict,
                                formData, mapVars >>
  /\ UNCHANGED << pending, now, windowL, consoleError, pc >>

\* The filter select (lines 456-460) and the render that follows.
SetSelectedDistrict(d) ==
  /\ pc = "idle"
  /\ activeTab = "dashboard"
  /\ d # selectedDistrict
  /\ Commit(spots, activeTab, d, FALSE)
  /\ dialog' = "none"
  /\ UNCHANGED << pending, now, windowL, consoleError, pc >>

\* The header's tab buttons (lines 166-183) and the render that follows.
SetActiveTab(t) ==
  /\ pc = "idle"
  /\ t # activeTab
  /\ Commit(spots, t, Semua, FALSE)
  /\ dialog' = "none"
  /\ UNCHANGED << pending, now, windowL, consoleError, pc >>

(***************************************************************************)
(* The environment.                                                        *)
(***************************************************************************)
\* Time passes; only a handler, run from idle, reads the clock.
Tick ==
  /\ pc = "idle"
  /\ now < MaxClock
  /\ now' = now + 1
  /\ UNCHANGED << storage, spots, activeTab, pending, selectedDistrict, formData,
                  windowL, mapVars, dialog, consoleError, pc >>

\* The Leaflet script finishes loading.
LeafletLoaded ==
  /\ pc # "crashed"
  /\ ~windowL
  /\ windowL' = TRUE
  /\ UNCHANGED << storage, spots, activeTab, pending, selectedDistrict, formData,
                  now, mapVars, dialog, consoleError, pc >>

Next ==
  \/ MountEffects
  \/ LoadEffect
  \/ SaveEffect
  \/ Render
  \/ HandleSubmit
  \/ \E v \in Names : SetName(v)
  \/ \E v \in Villages : SetVillage(v)
  \/ \E v \in FormDistricts : SetDistrict(v)
  \/ \E text \in CapacityTexts : SetCapacity(text)
  \/ \E confirmed \in BOOLEAN : DeleteSpot(confirmed)
  \/ \E d \in FilterChoices : SetSelectedDistrict(d)
  \/ \E t \in {"dashboard", "input"} : SetActiveTab(t)
  \/ Tick
  \/ LeafletLoaded

Spec == Init /\ [][Next]_vars

(***************************************************************************)
(* Marker placement on its own: the application starts on a slot holding   *)
(* one record whose coordinates and district range over ProbeSpots, and    *)
(* only the filter is used afterwards.                                     *)
(***************************************************************************)
CoordinateTexts ==
  { Undefined, Str(<< >>), Str(<< "0" >>), Str(<< "a", "b", "c" >>),
    Str(<< "-", "7", ".", "0", "9" >>), Str(<< "1", "1", "0", ".", "9", "2" >>),
    Str(InfinityText) }

ProbeDistricts == {"Purwodadi", "Geyer", "Semarang"}

ProbeSpots ==
  { TouristSpot("0", "Bledug Kuwu", "Kuwu", d, "Wisata Alam", 500, << >>, lat, lng) :
      d \in ProbeDistricts, lat \in CoordinateTexts, lng \in CoordinateTexts }

InitResolve ==
  /\ storage \in { SetItem(JSONStringify(<< p >>)) : p \in ProbeSpots }
  /\ spots = << >>
  /\ activeTab = "dashboard"
  /\ pending = << >>
  /\ selectedDistrict = Semua
  /\ formData = InitialForm
  /\ now = 2
  /\ windowL = TRUE
  /\ mapInstanceRef = "null"
  /\ markersRef = << >>
  /\ surface = NoSurface
  /\ dialog = "none"
  /\ consoleError = FALSE
  /\ pc = "mount"

NextResolve ==
  \/ MountEffects
  \/ LoadEffect
  \/ SaveEffect
  \/ Render
  \/ \E d \in FilterChoices : SetSelectedDistrict(d)

SpecResolve == InitResolve /\ [][NextResolve]_vars

(***************************************************************************)
(* Claims.                                                                 *)
(***************************************************************************)
CountIn(seq, x) == Cardinality({i \in 1..Len(seq) : seq[i] = x})

\* The records of list that resolve to a location, by index.
Locatable(list) == {i \in 1..Len(list) : ResolveLocation(list[i]).placed}

MarkerOf(spot) == Marker(spot, ResolveLocation(spot))

\* markers holds exactly one marker for each locatable record of list.
OneMarkerEach(markers, list) ==
  /\ Len(markers) = Cardinality(Locatable(list))
  /\ \A i \in Locatable(list) :
       CountIn(markers, MarkerOf(list[i]))
         = Cardinality({j \in Locatable(list) : MarkerOf(list[j]) = MarkerOf(list[i])})

\* A second run of the marker effect with the same list changes neither the
\* marker count nor the view.
SecondRunSame(once, list) ==
  /\ Len(MarkerUpdateEffect(once, windowL, list).surface.markers)
       = Len(once.surface.markers)
  /\ MarkerUpdateEffect(once, windowL, list).surface.view = once.surface.view
  /\ OneMarkerEach(once.surface.markers, list)

\* C1: while the map is mounted, the markers on the surface are exactly one
\* per locatable record of the list last handed to the marker effect (the
\* filtered list of the last render), nothing of an earlier run remains, and
\* from every such state a run with any filtered list followed by a second
\* run with the same list leaves the same marker count and view as the first.
C1_MarkersFollowList ==
  mapInstanceRef # "null" =>
    /\ OneMarkerEach(surface.markers, FilteredSpots(spots, selectedDistrict))
    /\ \A d \in FilterChoices :
         SecondRunSame(MarkerUpdateEffect(MapState, windowL, FilteredSpots(spots, d)),
                       FilteredSpots(spots, d))

\* A confirmed delete under an active filter has just been rendered and a
\* marker is on the map.
C1_Witness ==
  /\ mapInstanceRef # "null"
  /\ pc = "idle"
  /\ dialog = ConfirmYes
  /\ selectedDistrict # Semua
  /\ Len(spots) = 1
  /\ Len(surface.markers) = 1

\* A coordinate text counts when it is there and parses to a non-zero finite
\* number.
Usable(x) ==
  /\ x.def
  /\ x.s # << >>
  /\ ParseFloat(x.s).k = "num"
  /\ ParseFloat(x.s).v # 0

\* The location the resolution policy gives a record, as a list of at most one.
PolicyLocation(spot) ==
  IF Usable(spot.latitude) /\ Usable(spot.longitude)
  THEN << LatLng(ParseFloat(spot.latitude.s), ParseFloat(spot.longitude.s)) >>
  ELSE IF \E i \in 1..Len(DISTRICTS) : DISTRICTS[i] = spot.district
       THEN << DISTRICT_COORDINATES[spot.district] >>
       ELSE << >>

RECURSIVE PolicyLocations(_)
PolicyLocations(list) ==
  IF list = << >> THEN << >>
  ELSE PolicyLocation(list[1]) \o PolicyLocations(Tail(list))

\* C2: the markers on a mounted map stand, in order, at the locations the
\* resolution policy gives the records of the rendered list: the parsed
\* coordinates when both are non-zero finite numbers, else the centroid of a
\* known district, else no marker.
C2_ResolutionPolicy ==
  mapInstanceRef # "null" =>
    [i \in 1..Len(surface.markers) |-> surface.markers[i].latlng]
      = PolicyLocations(FilteredSpots(spots, selectedDistrict))

RECURSIVE SumCounts(_)
SumCounts(entries) ==
  IF entries = << >> THEN 0 ELSE entries[1].count + SumCounts(Tail(entries))

\* C3: for every non-empty list in the store, under the filter "Semua" the
\* per-type counts and the per-district counts each add up to totalCount.
C3_CountsAddUp ==
  spots # << >> =>
    /\ SumCounts(Dashboard(spots, Semua).byType) = Dashboard(spots, Semua).totalCount
    /\ SumCounts(Dashboard(spots, Semua).byDistrict) = Dashboard(spots, Semua).totalCount

\* The indices of the records of list in district d.
InDistrict(list, d) == {i \in 1..Len(list) : list[i].district = d}

RECURSIVE CapacityOver(_, _)
CapacityOver(list, indices) ==
  IF indices = {} THEN 0
  ELSE list[CHOOSE i \in indices : TRUE].capacity
       + CapacityOver(list, indices \ {CHOOSE i \in indices : TRUE})

\* The records of list in district d, in the order of list.
RECURSIVE OnlyDistrict(_, _)
OnlyDistrict(list, d) ==
  IF list = << >> THEN << >>
  ELSE (IF list[1].district = d THEN << list[1] >> ELSE << >>)
       \o OnlyDistrict(Tail(list), d)

\* What Dashboard shows under the filter d comes from the records of
\* district d alone.
FromDistrictOnly(view, list, d) ==
  /\ view.filteredSpots = OnlyDistrict(list, d)
  /\ view.mapSpots = OnlyDistrict(list, d)
  /\ view.totalCount = Cardinality(InDistrict(list, d))
  /\ view.totalCapacity = CapacityOver(list, InDistrict(list, d))
  /\ \A k \in 1..Len(TOURISM_TYPES) :
       /\ view.byType[k].type = TOURISM_TYPES[k]
       /\ view.byType[k].count
            = Cardinality({i \in InDistrict(list, d) : list[i].type = TOURISM_TYPES[k]})
  /\ Len(view.byDistrict) = 1
  /\ view.byDistrict[1].name = d
  /\ view.byDistrict[1].count = Cardinality(InDistrict(list, d))

\* C4: while the filter names a district D, every output of Dashboard (total
\* count, total capacity, per-type counts, per-district counts, the list
\* handed to the map) is computed from exactly the records of D, the
\* per-district counts have the single entry D, and a mounted map carries
\* one marker per locatable record of D.
C4_FilterRestrictsOutputs ==
  selectedDistrict # Semua =>
    /\ FromDistrictOnly(Dashboard(spots, selectedDistrict), spots, selectedDistrict)
    /\ mapInstanceRef # "null" =>
         OneMarkerEach(surface.markers, OnlyDistrict(spots, selectedDistrict))

\* The filter names a district that holds one of two stored records.
C4_Witness ==
  /\ pc = "idle"
  /\ selectedDistrict # Semua
  /\ mapInstanceRef # "null"
  /\ Len(spots) = 2
  /\ Cardinality(InDistrict(spots, selectedDistrict)) = 1
  /\ Len(surface.markers) = 1

\* C5: no two records of the store have the same id.
C5_UniqueIds ==
  \A i, j \in 1..Len(spots) : i # j => spots[i].id # spots[j].id

\* C6: once an add or a confirmed delete has been rendered and its save
\* effect has run (the application is idle again), the slot holds the
\* serialization of exactly the current list, in the same order.
C6_SlotMirrorsList ==
  pc = "idle" =>
    /\ storage = SetItem(JSONStringify(spots))
    /\ JSONParse(storage[1]).ok
    /\ JSONParse(storage[1]).value = spots

\* An add has been rendered and saved on top of an earlier record.
C6_Witness ==
  /\ pc = "idle"
  /\ dialog = AlertSaved
  /\ Len(spots) = 2
  /\ storage = SetItem(JSONStringify(spots))

\* Every aggregate of the view is zero.
AllZero(view) ==
  /\ view.totalCount = 0
  /\ view.totalCapacity = 0
  /\ \A k \in 1..Len(view.byType) : view.byType[k].count = 0
  /\ \A k \in 1..Len(view.byDistrict) : view.byDistrict[k].count = 0

\* The load effect has run on a slot whose text does not parse.
LoadFailed ==
  /\ pc = "load"
  /\ pc' # "load"
  /\ storage # << >>
  /\ ~JSONParse(storage[1]).ok

\* C7: when the persisted text does not parse, the load effect catches the
\* failure (logged to the console, no dialog, no crash) and leaves the store
\* the empty list with no update queued; the save effect that follows then
\* leaves the application idle with every aggregate zero and no marker.
C7_UnparsableStartsEmpty ==
  /\ [][LoadFailed =>
          /\ pc' = "save"
          /\ consoleError'
          /\ spots' = << >>
          /\ pending' = << >>
          /\ dialog' = "none"]_vars
  /\ [][(pc = "save" /\ consoleError /\ pc' # "save") =>
          /\ pc' = "idle"
          /\ spots' = << >>
          /\ \A d \in FilterChoices : AllZero(Dashboard(spots', d))
          /\ surface'.markers = << >>
          /\ dialog' = "none"]_vars

\* The application is idle after a start on an unparsable slot.
C7_Witness ==
  /\ consoleError
  /\ pc = "idle"
  /\ spots = << >>
  /\ storage = SetItem(JSONStringify(<< >>))
  /\ dialog = "none"

\* C8: a submission with an empty name or an empty village creates no
\* record: the list, the queued updates, the slot and the active tab stay as
\* they are, and the form keeps what was entered.
C8_IncompleteSubmitRejected ==
  [][(HandleSubmit /\ (formData.name = "" \/ formData.village = "")) =>
       UNCHANGED << spots, pending, storage, activeTab, formData, pc >>]_vars

\* A submission with a name but no village has just been refused.
C8_Witness ==
  /\ dialog = AlertIncomplete
  /\ activeTab = "input"
  /\ formData.name # ""
  /\ formData.village = ""
  /\ formData.capacity = Num(500)

\* C9: a delete whose confirmation is declined changes nothing: the list,
\* the slot, the district filter, the markers and the map are as before, no
\* update is queued and no error state is entered.
C9_DeclinedDeleteNoop ==
  [][DeleteSpot(FALSE) =>
       /\ UNCHANGED << spots, storage, selectedDistrict, mapVars, pending,
                       activeTab, consoleError >>
       /\ pc' = "idle"]_vars

\* A delete has just been declined under an active filter with a marker up.
C9_Witness ==
  /\ dialog = ConfirmNo
  /\ selectedDistrict # Semua
  /\ Len(surface.markers) > 0

\* C10: the map is Unmounted (mapInstanceRef "null") or Mounted ("map");
\* markers and the tile layer are on the surface only while Mounted; from a
\* Mounted state the init effect changes nothing; from an Unmounted state the
\* marker effect changes nothing, whatever list it is given; no map is
\* mounted off the dashboard tab, and the cleanup leaves the map Unmounted
\* with no marker and no tile layer on the surface.
C10_TwoStateMap ==
  /\ mapInstanceRef \in {"null", "map"}
  /\ mapInstanceRef = "null" => surface = NoSurface
  /\ mapInstanceRef = "map" => surface.tileLayer
  /\ mapInstanceRef = "map" => MapInitEffect(MapState, windowL) = MapState
  /\ mapInstanceRef = "null" =>
       \A d \in FilterChoices :
         MarkerUpdateEffect(MapState, windowL, FilteredSpots(spots, d)) = MapState
  /\ activeTab = "input" => mapInstanceRef = "null"
  /\ MapCleanup(MapState).mapInstanceRef = "null"
  /\ MapCleanup(MapState).surface = NoSurface

\* The dashboard was left while markers were up: the cleanup has run.
C10_Witness ==
  /\ activeTab = "input"
  /\ pc = "idle"
  /\ windowL
  /\ markersRef # << >>
  /\ mapInstanceRef = "null"

\* sub is what is left of list when some of its records are dropped: the
\* records that remain are equal, field by field, and in the same order.
RECURSIVE IsSubSeq(_, _)
IsSubSeq(sub, list) ==
  IF sub = << >> THEN TRUE
  ELSE IF list = << >> THEN FALSE
  ELSE IF sub[1] = list[1] THEN IsSubSeq(Tail(sub), Tail(list))
  ELSE IsSubSeq(sub, Tail(list))

\* The render that follows a successful submission.
SubmitRendered ==
  /\ pc = "render"
  /\ dialog = AlertSaved
  /\ pc' = "idle"

\* C11: the render of a successful submission leaves the list as the new
\* record (built from the form and the clock) followed by the list as it was,
\* and every step of the application only adds records to the list or only
\* removes records from it: a record that stays keeps all its fields and its
\* place relative to the others.
C11_FrontInsertFrame ==
  /\ [][SubmitRendered => spots' = << NewSpot(formData, now) >> \o spots]_vars
  /\ [][IsSubSeq(spots, spots') \/ IsSubSeq(spots', spots)]_vars

\* A record submitted after a tick of the clock sits in front of the record
\* a previous session had left.
C11_Witness ==
  /\ pc = "idle"
  /\ dialog = AlertSaved
  /\ Len(spots) = 2
  /\ spots[1].id = DateNowToString(MaxClock)
  /\ spots[2] = KiAgengSelo

\* C12: with an empty list every aggregate is zero under every filter, and a
\* confirmed delete in a store of exactly one record leaves the list empty,
\* the application idle, every aggregate zero and no marker on the map.
C12_DeleteOnlyRecordZeroes ==
  /\ [](spots = << >> => \A d \in FilterChoices : AllZero(Dashboard(spots, d)))
  /\ [][(DeleteSpot(TRUE) /\ Len(spots) = 1) =>
          /\ spots' = << >>
          /\ pc' = "idle"
          /\ AllZero(Dashboard(spots', selectedDistrict'))
          /\ surface'.markers = << >>
          /\ markersRef' = << >>]_vars

\* The only record, shown under its district's filter with its marker up,
\* has just been deleted.
C12_Witness ==
  /\ dialog = ConfirmYes
  /\ spots = << >>
  /\ selectedDistrict = "Kradenan"
  /\ mapInstanceRef = "map"
  /\ surface.markers = << >>
  /\ storage = SetItem(JSONStringify(<< >>))

(***************************************************************************)
(* The capacity field on its own: the application starts on an empty slot, *)
(* so every record of the store was made by the form, and the capacity     *)
(* input is given the texts of CapacityProbeTexts.                         *)
(***************************************************************************)
CapacityProbeTexts ==
  { << >>, << "5", "0", "0" >>, << "-", "5" >>, << "7", ".", "5" >> }

InitCapacity ==
  /\ storage = << >>
  /\ spots = << >>
  /\ activeTab = "dashboard"
  /\ pending = << >>
  /\ selectedDistrict = Semua
  /\ formData = InitialForm
  /\ now = 2
  /\ windowL = TRUE
  /\ mapInstanceRef = "null"
  /\ markersRef = << >>
  /\ surface = NoSurface
  /\ dialog = "none"
  /\ consoleError = FALSE
  /\ pc = "mount"

NextCapacity ==
  \/ MountEffects
  \/ LoadEffect
  \/ SaveEffect
  \/ Render
  \/ HandleSubmit
  \/ \E v \in Names : SetName(v)
  \/ \E v \in Villages : SetVillage(v)
  \/ \E text \in CapacityProbeTexts : SetCapacity(text)
  \/ \E t \in {"dashboard", "input"} : SetActiveTab(t)

SpecCapacity == InitCapacity /\ [][NextCapacity]_vars

AbsentId == "absent"

\* C14: a confirmed delete from a table row removes exactly one record (the
\* list is one shorter) and keeps the others as they were and in the same
\* order; filtering out an id no record carries leaves the list as it is.
C14_DeleteRemovesOne ==
  [][DeleteSpot(TRUE) =>
       /\ Len(spots') = Len(spots) - 1
       /\ IsSubSeq(spots', spots)
       /\ WithoutId(spots, AbsentId) = spots]_vars

\* The slot holds a well-formed list.
HoldsList(slot) ==
  /\ slot # << >>
  /\ JSONParse(slot[1]).ok
  /\ JSONParse(slot[1]).isArray

\* The render of the list the load effect queued.
StartupRendered ==
  /\ pc = "render"
  /\ dialog = "none"
  /\ pending[1].isArray
  /\ pc' = "idle"

\* C15: when the application starts on a slot holding a well-formed list,
\* the load effect leaves the slot as it is, the save effect of the first
\* render leaves in the slot a list that still has every record of that
\* list, and the render that ends the startup leaves both the store and the
\* slot equal to it.
C15_StartupRoundTrip ==
  /\ [][(pc = "load" /\ HoldsList(storage)) => storage' = storage]_vars
  /\ [][(pc = "save" /\ HoldsList(storage)) =>
          /\ HoldsList(storage')
          /\ IsSubSeq(JSONParse(storage[1]).value, JSONParse(storage'[1]).value)]_vars
  /\ [][StartupRendered =>
          /\ spots' = pending[1].spots
          /\ storage' = SetItem(JSONStringify(pending[1].spots))]_vars

=============================================================================
